---- MODULE Spec2Model ----
(***************************************************************************)
(* NewsRepository (src/mcp_news_server/db.py): read-only access to a MySQL *)
(* schema in which every symbol is a table of its own.  The model keeps    *)
(* the four caches of the repository, the backing schema, and a small      *)
(* number of requests that run the four tool operations (list_symbols,     *)
(* get_symbol_news, search, fetch) step by step: every cache read, every   *)
(* query and every cache write is a step of its own, so that requests      *)
(* interleave the way threads of one process do.                           *)
(*                                                                         *)
(* Strings are sequences of one-character strings, so that strip(),        *)
(* lower(), split() and str() are computed, not assumed.                   *)
(***************************************************************************)
EXTENDS Integers, Sequences, FiniteSets, TLC

\* ------------------------------------------------------------------ bounds

\* settings.max_rows, scaled down (MCP_MAX_ROWS, default 200).
MaxRows == 2
\* settings.max_scan_symbols, scaled down (MCP_MAX_SCAN_SYMBOLS, default 50).
MaxScanSymbols == 2
\* Largest limit a caller asks for; 0 stands for every limit <= 0.
MaxLimit == 3
\* Number of changes made to the backing schema during a run.
MaxSchemaChanges == 1
\* Number of tool calls the server receives during a run.
MaxCalls == 2

\* ------------------------------------------------------------ Python values

\* Python's None where a column name or a date string is expected.
None == "None"
\* Python's None where a string (a sequence of characters) or a list is expected.
NoneS == <<"None">>

\* A database / Python scalar: NULL, an integer or a string.
Null == [k |-> "null"]
IntV(n) == [k |-> "int", n |-> n]
StrV(s) == [k |-> "str", s |-> s]

\* ----------------------------------------------------------------- strings

\* str.lower() on one character of the alphabet in use.
LowerChar(c) ==
    CASE c = "A" -> "a"
      [] c = "B" -> "b"
      [] c = "C" -> "c"
      [] c = "T" -> "t"
      [] c = "X" -> "x"
      [] OTHER -> c

\* str.lower()
Lower(s) == [i \in 1..Len(s) |-> LowerChar(s[i])]

IsSpace(c) == c = " "

RECURSIVE LStrip(_)
LStrip(s) == IF s # <<>> /\ IsSpace(Head(s)) THEN LStrip(Tail(s)) ELSE s

RECURSIVE RStrip(_)
RStrip(s) ==
    IF s # <<>> /\ IsSpace(s[Len(s)]) THEN RStrip(SubSeq(s, 1, Len(s) - 1)) ELSE s

\* str.strip()
Strip(s) == RStrip(LStrip(s))

\* Index of the first occurrence of character c in s, 0 when absent.
IndexOf(s, c) ==
    IF \E i \in 1..Len(s) : s[i] = c
    THEN CHOOSE i \in 1..Len(s) : s[i] = c /\ \A j \in 1..(i - 1) : s[j] # c
    ELSE 0

\* Number of occurrences of character c in s.
Count(s, c) == Cardinality({i \in 1..Len(s) : s[i] = c})

\* needle in haystack (substring test).
Contains(hay, needle) ==
    \E i \in 0..(Len(hay) - Len(needle)) :
        SubSeq(hay, i + 1, i + Len(needle)) = needle

\* Code point order of the alphabet in use (ASCII: space, digits, ':',
\* upper case, lower case).
CharOrd(c) ==
    CASE c = " " -> 32
      [] c = "0" -> 48
      [] c = "1" -> 49
      [] c = "2" -> 50
      [] c = "3" -> 51
      [] c = ":" -> 58
      [] c = "A" -> 65
      [] c = "B" -> 66
      [] c = "C" -> 67
      [] c = "T" -> 84
      [] c = "X" -> 88
      [] c = "a" -> 97
      [] c = "b" -> 98
      [] c = "c" -> 99
      [] c = "t" -> 116
      [] c = "x" -> 120
      [] c = "z" -> 122
      [] OTHER -> 127

\* s < t in Python's string order.
RECURSIVE StrLess(_, _)
StrLess(s, t) ==
    IF t = <<>> THEN FALSE
    ELSE IF s = <<>> THEN TRUE
    ELSE IF CharOrd(Head(s)) # CharOrd(Head(t)) THEN CharOrd(Head(s)) < CharOrd(Head(t))
    ELSE StrLess(Tail(s), Tail(t))

\* sorted(set of strings)
RECURSIVE Sorted(_)
Sorted(S) ==
    IF S = {} THEN <<>>
    ELSE LET m == CHOOSE x \in S : \A y \in S \ {x} : StrLess(x, y)
         IN <<m>> \o Sorted(S \ {m})

\* seq[:n] for n >= 0
Take(seq, n) == SubSeq(seq, 1, IF n < Len(seq) THEN n ELSE Len(seq))

\* list(dict.fromkeys(seq)): first occurrences, in order.
RECURSIVE Dedup(_)
Dedup(seq) ==
    IF seq = <<>> THEN <<>>
    ELSE LET init == Dedup(SubSeq(seq, 1, Len(seq) - 1))
             last == seq[Len(seq)]
         IN IF \E i \in 1..Len(init) : init[i] = last THEN init ELSE Append(init, last)

Digit(n) == CASE n = 0 -> "0" [] n = 1 -> "1" [] n = 2 -> "2" [] n = 3 -> "3"
              [] n = 4 -> "4" [] n = 5 -> "5" [] n = 6 -> "6" [] n = 7 -> "7"
              [] n = 8 -> "8" [] OTHER -> "9"

\* str(n) for an integer n >= 0
RECURSIVE IntStr(_)
IntStr(n) == IF n < 10 THEN <<Digit(n)>> ELSE IntStr(n \div 10) \o <<Digit(n % 10)>>

\* str(value) as an f-string formats it
Str(v) ==
    CASE v.k = "int" -> IntStr(v.n)
      [] v.k = "str" -> v.s
      [] OTHER -> <<"N", "o", "n", "e">>

\* Python truthiness of a scalar (if value:)
Truthy(v) ==
    CASE v.k = "int" -> v.n # 0
      [] v.k = "str" -> v.s # <<>>
      [] OTHER -> FALSE

\* ------------------------------------------------------- the backing schema

\* Table names the MySQL schema may hold.  "AB" and "ab" differ only in case
\* (MySQL on a case-sensitive file system keeps both); " C" starts with a
\* space and "A:C" holds a colon (both are legal quoted identifiers).
TAB == <<"A", "B">>
Tab == <<"a", "b">>
TSp == <<" ", "C">>
TCol == <<"A", ":", "C">>
TableNames == {TAB, Tab, TSp, TCol}

\* A table is absent, or present with or without a PRIMARY KEY constraint.
Shapes == {"absent", "keyed", "keyless"}

\* information_schema.columns of a table, by ordinal position.
ColumnsOf(t) ==
    CASE t = TAB  -> << [column_name |-> "id", data_type |-> "int"],
                        [column_name |-> "Title", data_type |-> "varchar"],
                        [column_name |-> "Date", data_type |-> "datetime"] >>
      [] t = Tab  -> << [column_name |-> "id", data_type |-> "varchar"],
                        [column_name |-> "note", data_type |-> "text"] >>
      [] t = TCol -> << [column_name |-> "id", data_type |-> "int"],
                        [column_name |-> "headline", data_type |-> "varchar"],
                        [column_name |-> "date", data_type |-> "date"] >>
      [] OTHER    -> << [column_name |-> "id", data_type |-> "int"] >>

\* The rows of a table, in storage order.
RowsOf(t) ==
    CASE t = TAB  -> << [id |-> IntV(1), Title |-> StrV(<<"x">>), Date |-> StrV(<<"0", "2">>)],
                        [id |-> IntV(2), Title |-> StrV(<<"t">>), Date |-> StrV(<<"0", "3">>)],
                        [id |-> IntV(3), Title |-> StrV(<<"X", "t">>), Date |-> StrV(<<"0", "1">>)] >>
      [] t = Tab  -> << [id |-> StrV(<<"1">>), note |-> StrV(<<"x">>)],
                        [id |-> StrV(<<"1", ":", "2">>), note |-> Null] >>
      [] t = TCol -> << [id |-> IntV(3), headline |-> StrV(<<"x">>), date |-> StrV(<<"0", "1">>)] >>
      [] OTHER    -> << [id |-> IntV(3)] >>

\* The column the PRIMARY KEY constraint of a keyed table names.
KeyColumn == "id"

\* dict.get(name): the value of a field of a row, None (NULL) when absent.
Get(row, name) == IF name \in DOMAIN row THEN row[name] ELSE Null

\* A schema: the shape of every table name.
SchemaOf(ab, AB, sp, col) ==
    [t \in TableNames |->
        CASE t = Tab -> ab [] t = TAB -> AB [] t = TSp -> sp [] OTHER -> col]

\* The schemas a run may start from.
InitSchemas ==
    { SchemaOf("absent", "keyed", "keyless", "keyed"),
      SchemaOf("keyless", "keyed", "absent", "absent"),
      SchemaOf("absent", "absent", "absent", "absent") }

\* ----------------------------------------------------------- SQL semantics

\* ORDER BY `col` DESC on string-valued columns (insertion sort, stable).
RECURSIVE OrderDesc(_, _)
OrderDesc(rows, col) ==
    IF rows = <<>> THEN <<>>
    ELSE LET rest == OrderDesc(Tail(rows), col)
             r == Head(rows)
             before == Cardinality({i \in 1..Len(rest) :
                                      ~StrLess(Str(Get(rest[i], col)), Str(Get(r, col)))
                                      /\ Str(Get(rest[i], col)) # Str(Get(r, col))})
         IN SubSeq(rest, 1, before) \o <<r>> \o SubSeq(rest, before + 1, Len(rest))

\* `col` LIKE '%pattern%' under MySQL's default case-insensitive collation.
Like(row, col, pattern) ==
    /\ Get(row, col) # Null
    /\ Contains(Lower(Str(Get(row, col))), Lower(pattern))

\* `col` >= 'date 00:00:00' on a day-valued column.
DateGE(row, col, date) ==
    /\ Get(row, col) # Null
    /\ ~StrLess(Str(Get(row, col)), date)

\* The number MySQL reads from a string it compares with a number: its
\* leading digits, 0 when there are none.
RECURSIVE LeadingInt(_, _)
LeadingInt(raw, acc) ==
    IF raw = <<>> \/ ~(Head(raw) \in {"0", "1", "2", "3"}) THEN acc
    ELSE LeadingInt(Tail(raw), 10 * acc + (CharOrd(Head(raw)) - 48))

\* `col` = :pk with a string parameter: a string column compares the text, an
\* integer column compares numbers.
KeyEq(row, col, raw) ==
    LET v == Get(row, col) IN
    CASE v.k = "str" -> v.s = raw
      [] v.k = "int" -> v.n = LeadingInt(LStrip(raw), 0)
      [] OTHER -> FALSE

\* The rows MySQL returns for a row query q against the schema sch.
RunRowQuery(sch, q) ==
    LET keep(row) ==
            /\ q.like = <<>> \/ \E i \in 1..Len(q.like) : Like(row, q.like[i], q.pattern)
            /\ q.date_col = None \/ DateGE(row, q.date_col, q.date_from)
            /\ q.pk_col = None \/ KeyEq(row, q.pk_col, q.pk)
        hits == SelectSeq(RowsOf(q.table), keep)
        ordered == IF q.order = None THEN hits ELSE OrderDesc(hits, q.order)
    IN Take(ordered, q.limit)

\* The shape of table t in a schema; a name the schema never holds is absent.
ShapeOf(sch, t) == IF t \in DOMAIN sch THEN sch[t] ELSE "absent"

\* information_schema.tables: the base tables of the schema.
RunTablesQuery(sch) == {t \in TableNames : ShapeOf(sch, t) # "absent"}

\* information_schema.columns of one table (no row for an absent table).
RunColumnsQuery(sch, t) == IF ShapeOf(sch, t) = "absent" THEN <<>> ELSE ColumnsOf(t)

\* First PRIMARY KEY column of one table: no row for a keyless or absent table.
RunKeyQuery(sch, t) == IF ShapeOf(sch, t) = "keyed" THEN <<KeyColumn>> ELSE <<>>

\* ------------------------------------------------- pure helpers of db.py

PREFERRED_TEXT_COLUMNS ==
    << "Title", "title", "headline", "Headline", "summary", "Summary",
       "description", "Description", "content", "Content", "body", "Body" >>

PREFERRED_DATE_COLUMNS ==
    << "date", "Date", "published_at", "publishedAt", "created_at", "datetime" >>

TEXT_DATA_TYPES == {"char", "varchar", "tinytext", "text", "mediumtext", "longtext"}

\* A raised exception / a returned value.
Err(kind) == [ok |-> FALSE, error |-> kind]
Ok(value) == [ok |-> TRUE, value |-> value]

Min(a, b) == IF a < b THEN a ELSE b

\* A limit check that forgets the clamp.
SafeLimitUnclamped(requested) ==
    IF requested <= 0 THEN Err("InvalidLimit") ELSE Ok(requested)

\* A limit check that refuses a request above the maximum instead of clamping.
SafeLimitStrict(requested) ==
    IF requested <= 0 \/ requested > MaxRows THEN Err("InvalidLimit") ELSE Ok(requested)

\* _safe_limit: ValueError for requested <= 0, otherwise min(requested, max_rows).
SafeLimit(requested) ==
    IF requested <= 0 THEN Err("InvalidLimit") ELSE Ok(Min(requested, MaxRows))

IsDigit(c) == c \in {"0", "1", "2", "3", "4", "5", "6", "7", "8", "9"}

\* _validate_date: datetime.strptime(value, format) succeeds.  Dates are scaled
\* down to a two-digit day "DD" (format "%d" with zero padding).
ValidDate(value) ==
    /\ Len(value) = 2
    /\ IsDigit(value[1]) /\ IsDigit(value[2])
    /\ value \notin {<<"0", "0">>}
    /\ StrLess(value, <<"3", "2">>)

\* Python truthiness of an optional string argument (if date_from:).
Given(s) == s # NoneS /\ s # <<>>

\* {column["column_name"] for column in columns}
Available(columns) == {columns[i].column_name : i \in 1..Len(columns)}

\* _resolve_searchable_columns, from the columns _resolve_columns returned.
SearchableColumns(columns) ==
    LET inPref(name) == name \in Available(columns)
        preferred == SelectSeq(PREFERRED_TEXT_COLUMNS, inPref)
        isText(column) == column.data_type \in TEXT_DATA_TYPES
        textual == SelectSeq(columns, isText)
        fallback == [i \in 1..Len(textual) |-> textual[i].column_name]
    IN IF preferred # <<>> THEN preferred ELSE Take(fallback, 3)

\* _resolve_date_column, from the columns _resolve_columns returned.
DateColumn(columns) ==
    LET present == {i \in 1..Len(PREFERRED_DATE_COLUMNS) :
                        PREFERRED_DATE_COLUMNS[i] \in Available(columns)}
    IN IF present = {} THEN None
       ELSE PREFERRED_DATE_COLUMNS[CHOOSE i \in present : \A j \in present : i <= j]

\* _extract_title: the first truthy value among the preferred text columns.
ExtractTitle(row) ==
    LET present == {i \in 1..Len(PREFERRED_TEXT_COLUMNS) :
                        Truthy(Get(row, PREFERRED_TEXT_COLUMNS[i]))}
    IN IF present = {} THEN <<>>
       ELSE Str(Get(row, PREFERRED_TEXT_COLUMNS[CHOOSE i \in present : \A j \in present : i <= j]))

\* hashlib.sha1(text).hexdigest()[:16], kept as a tagged copy of its input: equal
\* inputs give equal digests and no collision is modelled.
Digest(text) == <<"#">> \o text

\* An id that always takes the digest branch.
DocumentIdHashed(symbol, row, primary_key) ==
    symbol \o <<":">>
    \o Digest(symbol \o <<"|">> \o ExtractTitle(row) \o <<"|">>
              \o (IF "date" \in DOMAIN row THEN Str(row["date"]) ELSE <<>>))

\* An id whose digest takes the date from the column "Date" when the row has
\* no field "date".
DocumentIdAnyDate(symbol, row, primary_key) ==
    IF primary_key # None /\ Get(row, primary_key) # Null
    THEN symbol \o <<":">> \o Str(row[primary_key])
    ELSE symbol \o <<":">>
         \o Digest(symbol \o <<"|">> \o ExtractTitle(row) \o <<"|">>
                   \o (IF "date" \in DOMAIN row THEN Str(row["date"])
                       ELSE IF "Date" \in DOMAIN row THEN Str(row["Date"])
                       ELSE <<>>))

\* _document_id, given the primary key _resolve_primary_key returned.
DocumentId(symbol, row, primary_key) ==
    IF primary_key # None /\ Get(row, primary_key) # Null
    THEN symbol \o <<":">> \o Str(row[primary_key])
    ELSE symbol \o <<":">>
         \o Digest(symbol \o <<"|">> \o ExtractTitle(row) \o <<"|">>
                   \o (IF "date" \in DOMAIN row THEN Str(row["date"]) ELSE <<>>))

\* A split that insists on exactly one separator.
SplitIdStrict(identifier) ==
    LET at == IndexOf(identifier, ":")
    IN IF Count(identifier, ":") # 1 THEN Err("MalformedId")
       ELSE Ok([symbol |-> SubSeq(identifier, 1, at - 1),
                raw_pk |-> SubSeq(identifier, at + 1, Len(identifier))])

\* fetch, lines 162-165: the id is refused when it holds no ':', and is split
\* at its first ':' otherwise (str.split(":", 1)).
SplitId(identifier) ==
    LET at == IndexOf(identifier, ":")
    IN IF at = 0 THEN Err("MalformedId")
       ELSE Ok([symbol |-> SubSeq(identifier, 1, at - 1),
                raw_pk |-> SubSeq(identifier, at + 1, Len(identifier))])

\* {name.lower(): name for name in names}: when two names share a lower-cased
\* form the one iterated last stays, and a set's iteration order is not fixed.
LookupMaps(names) ==
    { f \in [ {Lower(n) : n \in names} -> names ] : \A l \in DOMAIN f : Lower(f[l]) = l }

\* _resolve_primary_key line 274: rows[0]["column_name"] if rows else None.
KeyOf(rows) == IF rows # <<>> THEN rows[1] ELSE None

\* A test that takes every table for a keyed one.
NoKeyNever(primary_key) == FALSE

\* fetch line 168: not primary_key.
NoKey(primary_key) == primary_key = None

\* A blank test that forgets to strip: only the empty string is blank.
IsBlankEmptyOnly(query) == query = <<>>

\* search lines 120-121: not query.strip().
IsBlank(query) == Strip(query) = <<>>

\* A validation that trusts the caller: the stripped input, cached or not.
ExactMatchUnchecked(symbol, cache) == Ok(Strip(symbol))

\* _validate_symbol, line 205-207: the stripped input when it is a cached symbol.
ExactMatch(symbol, cache) ==
    IF Strip(symbol) \in cache THEN Ok(Strip(symbol)) ELSE Err("miss")

\* A lookup that hands back the lower-cased key instead of the table name.
FallbackMatchLowerCased(symbol, lookup) ==
    IF Lower(Strip(symbol)) \in DOMAIN lookup
    THEN Ok(Lower(Strip(symbol)))
    ELSE Err("UnknownSymbol")

\* A lookup that lets an unknown name through.
FallbackMatchPermissive(symbol, lookup) ==
    IF Lower(Strip(symbol)) \in DOMAIN lookup
    THEN Ok(lookup[Lower(Strip(symbol))])
    ELSE Ok(Strip(symbol))

\* _validate_symbol, lines 209-213: the lower-cased lookup, else ValueError.
FallbackMatch(symbol, lookup) ==
    IF Lower(Strip(symbol)) \in DOMAIN lookup
    THEN Ok(lookup[Lower(Strip(symbol))])
    ELSE Err("UnknownSymbol")

\* ------------------------------------------------------------------- state

VARIABLES
    schema,                 \* the backing MySQL schema: table name -> shape
    changes,                \* number of schema changes made so far
    calls,                  \* number of tool calls received so far
    _symbols_cache,         \* NewsRepository._symbols_cache
    _symbol_lookup_cache,   \* NewsRepository._symbol_lookup_cache
    _columns_cache,         \* NewsRepository._columns_cache
    _primary_key_cache,     \* NewsRepository._primary_key_cache
    req                     \* the requests: their arguments, locals and position

vars == <<schema, changes, calls, _symbols_cache, _symbol_lookup_cache,
          _columns_cache, _primary_key_cache, req>>

caches == <<_symbols_cache, _symbol_lookup_cache, _columns_cache, _primary_key_cache>>

\* Requests the server may be running at the same time.
Requests == {1, 2}

\* No helper call in progress.
NoQ == [kind |-> "none", ph |-> "none", table |-> <<>>, sql |-> None]

\* A request slot that runs nothing.
IdleReq ==
    [ op |-> "idle", pc |-> "idle",
      symbol |-> <<>>, symbols |-> NoneS, query |-> <<>>, date_from |-> NoneS,
      has_limit |-> FALSE, limit |-> 0, id |-> <<>>,
      norm |-> <<>>, raw_pk |-> <<>>, row_limit |-> 0,
      vals |-> <<>>, targets |-> <<>>, i |-> 0,
      scols |-> <<>>, pk |-> None, rows |-> <<>>, j |-> 0, results |-> <<>>,
      q |-> NoQ, ret |-> None, conn |-> 0, log |-> <<>>,
      out |-> [status |-> "none"] ]

\* ------------------------------------------------------------------ inputs

\* The arguments callers pass.  A run of overlapping requests draws them from
\* the narrow sets, a run of one request at a time from the wide ones.
SymbolInputs(wide) ==
    IF wide THEN { <<"a", "b">>, <<" ", "A", "B", " ">>, <<" ", "c">>, <<"a", ":", "c">>, <<"z">> }
    ELSE { <<"a", "b">> }

SymbolListInputs(wide) ==
    IF wide
    THEN { NoneS, <<TAB>>, <<TAB, <<"z">> >>, << <<"a", ":", "c">>, TAB, TCol >>,
           <<TAB, Tab, TCol>> }
    ELSE { NoneS }

QueryInputs(wide) == IF wide THEN { <<>>, <<" ">>, <<"x">> } ELSE { <<"x">> }

DateInputs(wide) == IF wide THEN { NoneS, <<>>, <<"0", "2">>, <<"z">> } ELSE { NoneS }

LimitInputs(wide) == IF wide THEN {0, 1, MaxLimit} ELSE {1}

\* server.list_symbols: the limit the tool passes on when the caller gives none.
DefaultListLimit == 500

\* The limits list_symbols is called with: the caller's, or the tool's default.
ListLimitInputs(wide) ==
    IF wide THEN LimitInputs(wide) \cup {DefaultListLimit} ELSE LimitInputs(wide)

\* "<name>:<key>" of every row of every table, an id with no separator, an id
\* of an unknown symbol and an id no row has.
IdInputs(wide) ==
    IF ~wide THEN { TAB \o <<":", "1">> } ELSE
    UNION { { t \o <<":">> \o Str(RowsOf(t)[n].id) : n \in 1..Len(RowsOf(t)) } : t \in TableNames }
    \cup { TAB, <<"z", ":", "1">>, <<"a", "b", ":", "0">> }

\* ---------------------------------------------------------------- requests

\* Enter a helper that may query: _refresh_symbols_cache ("tables"),
\* _resolve_columns ("columns"), _resolve_primary_key ("pk") or a row query
\* through _query ("rows"); the caller goes on at pc `cont` when it returns.
Call(rq, kind, table, sql, cont) ==
    [rq EXCEPT !.q = [kind |-> kind, ph |-> "check", table |-> table, sql |-> sql],
               !.pc = cont]

\* The operation raised: the exception leaves the operation.
Fail(rq, kind) ==
    [rq EXCEPT !.pc = "done", !.q = NoQ, !.out = [status |-> kind]]

\* The operation returned value.
Done(rq, value) ==
    [rq EXCEPT !.pc = "done", !.q = NoQ, !.out = [status |-> "ok", value |-> value]]

\* server.get_symbol_news line 52: rows[0]["symbol"] if rows else symbol.
ResolvedSymbol(symbol, rows) == IF rows # <<>> THEN rows[1].symbol ELSE symbol

\* get_symbol_news returned rows: the tool answers with them and with the
\* symbol it resolved (server.get_symbol_news lines 51-53).
NewsDone(rq, rows) ==
    [rq EXCEPT !.pc = "done", !.q = NoQ,
               !.out = [status |-> "ok", value |-> rows,
                        symbol |-> ResolvedSymbol(rq.symbol, rows)]]

\* A row query as get_symbol_news, search and fetch build it: the identifiers
\* interpolated into the SQL text (table, like, date_col, order, pk_col) and
\* the bound parameters (pattern, date_from, pk, limit).
RowSql(table, like, pattern, date_col, date_from, order, pk_col, pk, limit) ==
    [ table |-> table, like |-> like, pattern |-> pattern, date_col |-> date_col,
      date_from |-> date_from, order |-> order, pk_col |-> pk_col, pk |-> pk,
      limit |-> limit ]

Init ==
    /\ schema \in InitSchemas
    /\ changes = 0
    /\ calls = 0
    /\ _symbols_cache = {}
    /\ _symbol_lookup_cache = <<>>
    /\ _columns_cache = <<>>
    /\ _primary_key_cache = <<>>
    /\ req = [r \in Requests |-> IdleReq]

\* ------------------------------------------------- the helpers that query

\* A helper finds its answer cached and returns without a query:
\* _refresh_symbols_cache line 227, _resolve_columns line 241,
\* _resolve_primary_key line 257.
CacheHit(r) ==
    LET rq == req[r] IN
    /\ rq.q.ph = "check"
    /\ \/ /\ rq.q.kind = "tables"
          /\ _symbols_cache # {}
          /\ req' = [req EXCEPT ![r] = [rq EXCEPT !.q = NoQ]]
       \/ /\ rq.q.kind = "columns"
          /\ rq.q.table \in DOMAIN _columns_cache
          /\ req' = [req EXCEPT ![r] = [rq EXCEPT !.q = NoQ,
                                                  !.ret = _columns_cache[rq.q.table]]]
       \/ /\ rq.q.kind = "pk"
          /\ rq.q.table \in DOMAIN _primary_key_cache
          /\ req' = [req EXCEPT ![r] = [rq EXCEPT !.q = NoQ,
                                                  !.ret = _primary_key_cache[rq.q.table]]]
    /\ UNCHANGED <<schema, changes, calls, caches>>

\* The helper misses its cache (a row query has none) and _query opens a
\* pooled connection: with self.engine.connect() as connection.
Acquire(r) ==
    LET rq == req[r] IN
    /\ rq.q.ph = "check"
    /\ \/ rq.q.kind = "tables" /\ _symbols_cache = {}
       \/ rq.q.kind = "columns" /\ rq.q.table \notin DOMAIN _columns_cache
       \/ rq.q.kind = "pk" /\ rq.q.table \notin DOMAIN _primary_key_cache
       \/ rq.q.kind = "rows"
    /\ req' = [req EXCEPT ![r] = [rq EXCEPT !.q.ph = "exec", !.conn = rq.conn + 1]]
    /\ UNCHANGED <<schema, changes, calls, caches>>

\* What the query of the helper in progress reads from the schema.
QueryResult(rq) ==
    CASE rq.q.kind = "tables"  -> RunTablesQuery(schema)
      [] rq.q.kind = "columns" -> RunColumnsQuery(schema, rq.q.table)
      [] rq.q.kind = "pk"      -> RunKeyQuery(schema, rq.q.table)
      [] OTHER                 -> RunRowQuery(schema, rq.q.sql)

\* The entry _query leaves in the request's log of executed statements.
LogEntry(rq, ok) ==
    [kind |-> rq.q.kind, table |-> rq.q.table, sql |-> rq.q.sql, ok |-> ok]

\* connection.execute succeeds; the connection is released on leaving the
\* with block.  A row query returns its rows to the caller; a metadata query
\* hands them to the cache write that follows.
Execute(r) ==
    LET rq == req[r] IN
    /\ rq.q.ph = "exec"
    /\ rq.q.kind = "rows" => ShapeOf(schema, rq.q.table) # "absent"
    /\ req' = [req EXCEPT ![r] =
                 [rq EXCEPT !.conn = rq.conn - 1,
                            !.log = Append(rq.log, LogEntry(rq, TRUE)),
                            !.ret = QueryResult(rq),
                            !.q = IF rq.q.kind = "rows" THEN NoQ
                                  ELSE [rq.q EXCEPT !.ph = "store"]]]
    /\ UNCHANGED <<schema, changes, calls, caches>>

\* A failure that leaves an empty entry behind for the lookup that failed.
ExecuteFailsStoresEmpty(r) ==
    LET rq == req[r] IN
    /\ rq.q.ph = "exec"
    /\ req' = [req EXCEPT ![r] =
                 Fail([rq EXCEPT !.conn = rq.conn - 1,
                                 !.log = Append(rq.log, LogEntry(rq, FALSE))],
                      "QueryFailed")]
    /\ _columns_cache' =
          IF rq.q.kind = "columns"
          THEN [t \in DOMAIN _columns_cache \cup {rq.q.table} |->
                   IF t = rq.q.table THEN <<>> ELSE _columns_cache[t]]
          ELSE _columns_cache
    /\ _primary_key_cache' =
          IF rq.q.kind = "pk"
          THEN [t \in DOMAIN _primary_key_cache \cup {rq.q.table} |->
                   IF t = rq.q.table THEN None ELSE _primary_key_cache[t]]
          ELSE _primary_key_cache
    /\ UNCHANGED <<schema, changes, calls, _symbols_cache, _symbol_lookup_cache>>

\* A failure that leaves the block of _query without giving the connection
\* back to the pool.
ExecuteFailsLeaks(r) ==
    LET rq == req[r] IN
    /\ rq.q.ph = "exec"
    /\ req' = [req EXCEPT ![r] =
                 Fail([rq EXCEPT !.log = Append(rq.log, LogEntry(rq, FALSE))],
                      "QueryFailed")]
    /\ UNCHANGED <<schema, changes, calls, caches>>

\* connection.execute raises (driver or network error, or the table of a row
\* query no longer exists): the with block releases the connection and the
\* exception leaves the operation.
ExecuteFails(r) ==
    LET rq == req[r] IN
    /\ rq.q.ph = "exec"
    /\ req' = [req EXCEPT ![r] =
                 Fail([rq EXCEPT !.conn = rq.conn - 1,
                                 !.log = Append(rq.log, LogEntry(rq, FALSE))],
                      "QueryFailed")]
    /\ UNCHANGED <<schema, changes, calls, caches>>

\* A cache write that is not idempotent: writing an entry another request
\* has already written removes it.
StoreToggles(r) ==
    LET rq == req[r] IN
    /\ rq.q.ph = "store"
    /\ \/ /\ rq.q.kind = "tables"
          /\ _symbols_cache' = rq.ret
          /\ req' = [req EXCEPT ![r] = [rq EXCEPT !.q.ph = "store2", !.ret = None]]
          /\ UNCHANGED <<_columns_cache, _primary_key_cache>>
       \/ /\ rq.q.kind = "columns"
          /\ _columns_cache' =
                IF rq.q.table \in DOMAIN _columns_cache
                THEN [t \in DOMAIN _columns_cache \ {rq.q.table} |-> _columns_cache[t]]
                ELSE [t \in DOMAIN _columns_cache \cup {rq.q.table} |->
                         IF t = rq.q.table THEN rq.ret ELSE _columns_cache[t]]
          /\ req' = [req EXCEPT ![r] = [rq EXCEPT !.q = NoQ]]
          /\ UNCHANGED <<_symbols_cache, _primary_key_cache>>
       \/ /\ rq.q.kind = "pk"
          /\ LET primary_key == KeyOf(rq.ret) IN
             /\ _primary_key_cache' =
                   IF rq.q.table \in DOMAIN _primary_key_cache
                   THEN [t \in DOMAIN _primary_key_cache \ {rq.q.table} |->
                            _primary_key_cache[t]]
                   ELSE [t \in DOMAIN _primary_key_cache \cup {rq.q.table} |->
                            IF t = rq.q.table THEN primary_key ELSE _primary_key_cache[t]]
             /\ req' = [req EXCEPT ![r] = [rq EXCEPT !.q = NoQ, !.ret = primary_key]]
          /\ UNCHANGED <<_symbols_cache, _columns_cache>>
    /\ UNCHANGED <<schema, changes, calls, _symbol_lookup_cache>>

\* The cache write after a metadata query: line 237, line 253, line 275.
Store(r) ==
    LET rq == req[r] IN
    /\ rq.q.ph = "store"
    /\ \/ /\ rq.q.kind = "tables"
          /\ _symbols_cache' = rq.ret
          /\ req' = [req EXCEPT ![r] = [rq EXCEPT !.q.ph = "store2", !.ret = None]]
          /\ UNCHANGED <<_columns_cache, _primary_key_cache>>
       \/ /\ rq.q.kind = "columns"
          /\ _columns_cache' =
                [t \in DOMAIN _columns_cache \cup {rq.q.table} |->
                    IF t = rq.q.table THEN rq.ret ELSE _columns_cache[t]]
          /\ req' = [req EXCEPT ![r] = [rq EXCEPT !.q = NoQ]]
          /\ UNCHANGED <<_symbols_cache, _primary_key_cache>>
       \/ /\ rq.q.kind = "pk"
          /\ LET primary_key == KeyOf(rq.ret) IN
             /\ _primary_key_cache' =
                   [t \in DOMAIN _primary_key_cache \cup {rq.q.table} |->
                       IF t = rq.q.table THEN primary_key ELSE _primary_key_cache[t]]
             /\ req' = [req EXCEPT ![r] = [rq EXCEPT !.q = NoQ, !.ret = primary_key]]
          /\ UNCHANGED <<_symbols_cache, _columns_cache>>
    /\ UNCHANGED <<schema, changes, calls, _symbol_lookup_cache>>

\* _refresh_symbols_cache line 238: the lookup map is rebuilt from whatever
\* _symbols_cache holds now.
StoreLookup(r) ==
    LET rq == req[r] IN
    /\ rq.q.ph = "store2"
    /\ _symbol_lookup_cache' \in LookupMaps(_symbols_cache)
    /\ req' = [req EXCEPT ![r] = [rq EXCEPT !.q = NoQ]]
    /\ UNCHANGED <<schema, changes, calls, _symbols_cache, _columns_cache, _primary_key_cache>>

\* ------------------------------------------------------------ list_symbols

\* list_symbols is called: line 87.  The tool always passes a limit; the
\* repository method also takes none (limit=None).
StartList(r, wide) ==
    /\ req[r].op = "idle"
    /\ calls < MaxCalls
    /\ calls' = calls + 1
    /\ \E has_limit \in BOOLEAN, limit \in ListLimitInputs(wide) :
          /\ ~has_limit => limit = 0
          /\ req' = [req EXCEPT ![r] =
                       Call([IdleReq EXCEPT !.op = "list", !.has_limit = has_limit,
                                            !.limit = limit],
                            "tables", <<>>, None, "list_ret")]
    /\ UNCHANGED <<schema, changes, caches>>

\* list_symbols lines 88-91.
ListReturn(r) ==
    LET rq == req[r]
        ordered == Sorted(_symbols_cache)
    IN
    /\ rq.q = NoQ /\ rq.op = "list" /\ rq.pc = "list_ret"
    /\ req' = [req EXCEPT ![r] =
                 IF ~rq.has_limit THEN Done(rq, ordered)
                 ELSE IF ~SafeLimit(rq.limit).ok THEN Fail(rq, SafeLimit(rq.limit).error)
                 ELSE Done(rq, Take(ordered, SafeLimit(rq.limit).value))]
    /\ UNCHANGED <<schema, changes, calls, caches>>

\* --------------------------------------------------------- _validate_symbol

\* search, the loop of lines 130-136: leave when the targets are used up or
\* the results reach row_limit (return results[:row_limit]), else resolve the
\* searchable columns of the next target.
SearchLoop(rq) ==
    IF rq.i > Len(rq.targets) \/ Len(rq.results) >= rq.row_limit
    THEN Done(rq, Take(rq.results, rq.row_limit))
    ELSE Call(rq, "columns", rq.targets[rq.i], None, "search_cols")

\* search lines 126-129, once the targets are resolved.
AfterTargets(rq, targets) ==
    IF Given(rq.date_from) /\ ~ValidDate(rq.date_from)
    THEN Fail(rq, "InvalidDateFormat")
    ELSE SearchLoop([rq EXCEPT !.targets = targets, !.i = 1, !.results = <<>>])

\* A scan of the whole inventory, without the cap.
DefaultTargetsAll(cache) == Sorted(cache)

\* _resolve_target_symbols line 198: the first max_scan_symbols of the sorted
\* inventory.
DefaultTargets(cache) == Take(Sorted(cache), MaxScanSymbols)

\* _resolve_target_symbols line 201: de-duplicate, keep the first
\* max_scan_symbols.
ExplicitTargets(validated) == Take(Dedup(validated), MaxScanSymbols)

\* What the caller of _validate_symbol does with the canonical symbol:
\* get_symbol_news lines 95-96, fetch line 167, _resolve_target_symbols
\* lines 199-201.
AfterValidate(rq, canon) ==
    CASE rq.op = "news" ->
            IF ~SafeLimit(rq.limit).ok THEN Fail(rq, SafeLimit(rq.limit).error)
            ELSE Call([rq EXCEPT !.norm = canon, !.row_limit = SafeLimit(rq.limit).value],
                      "columns", canon, None, "news_sql")
      [] rq.op = "fetch" ->
            Call([rq EXCEPT !.norm = canon], "pk", canon, None, "fetch_pk")
      [] OTHER ->
            LET validated == Append(rq.vals, canon) IN
            IF rq.i < Len(rq.symbols)
            THEN Call([rq EXCEPT !.vals = validated, !.i = rq.i + 1,
                                 !.symbol = rq.symbols[rq.i + 1]],
                      "tables", <<>>, None, "validate")
            ELSE AfterTargets([rq EXCEPT !.vals = validated], ExplicitTargets(validated))

\* _validate_symbol lines 205-207, after its _refresh_symbols_cache returned.
Validate(r) ==
    LET rq == req[r]
        m == ExactMatch(rq.symbol, _symbols_cache)
    IN
    /\ rq.q = NoQ /\ rq.pc = "validate"
    /\ req' = [req EXCEPT ![r] =
                 IF m.ok THEN AfterValidate(rq, m.value) ELSE [rq EXCEPT !.pc = "fallback"]]
    /\ UNCHANGED <<schema, changes, calls, caches>>

\* _validate_symbol lines 209-213.
Fallback(r) ==
    LET rq == req[r]
        m == FallbackMatch(rq.symbol, _symbol_lookup_cache)
    IN
    /\ rq.q = NoQ /\ rq.pc = "fallback"
    /\ req' = [req EXCEPT ![r] =
                 IF m.ok THEN AfterValidate(rq, m.value) ELSE Fail(rq, m.error)]
    /\ UNCHANGED <<schema, changes, calls, caches>>

\* --------------------------------------------------------- get_symbol_news

\* get_symbol_news is called: line 94 enters _validate_symbol.
StartNews(r, wide) ==
    /\ req[r].op = "idle"
    /\ calls < MaxCalls
    /\ calls' = calls + 1
    /\ \E symbol \in SymbolInputs(wide), date_from \in DateInputs(wide), limit \in LimitInputs(wide) :
          req' = [req EXCEPT ![r] =
                    Call([IdleReq EXCEPT !.op = "news", !.symbol = symbol,
                                         !.date_from = date_from, !.has_limit = TRUE,
                                         !.limit = limit],
                         "tables", <<>>, None, "validate")]
    /\ UNCHANGED <<schema, changes, caches>>

\* get_symbol_news lines 96-110: the statement built from the date column.
NewsSql(rq, date_column) ==
    IF Given(rq.date_from) /\ date_column # None
    THEN RowSql(rq.norm, <<>>, <<>>, date_column, rq.date_from, date_column,
                None, <<>>, rq.row_limit)
    ELSE RowSql(rq.norm, <<>>, <<>>, None, NoneS, date_column, None, <<>>, rq.row_limit)

NewsQuery(r) ==
    LET rq == req[r]
        date_column == DateColumn(rq.ret)
    IN
    /\ rq.q = NoQ /\ rq.pc = "news_sql"
    /\ req' = [req EXCEPT ![r] =
                 IF Given(rq.date_from) /\ date_column # None /\ ~ValidDate(rq.date_from)
                 THEN Fail(rq, "InvalidDateFormat")
                 ELSE Call(rq, "rows", rq.norm, NewsSql(rq, date_column), "rows_back")]
    /\ UNCHANGED <<schema, changes, calls, caches>>

\* get_symbol_news line 111 / search lines 156-157: the rows came back; each
\* one is shaped in turn, and shaping asks _resolve_primary_key.
RowsBack(r) ==
    LET rq == req[r]
        symbol == IF rq.op = "news" THEN rq.norm ELSE rq.targets[rq.i]
    IN
    /\ rq.q = NoQ /\ rq.pc = "rows_back"
    /\ req' = [req EXCEPT ![r] =
                 IF rq.ret = <<>>
                 THEN IF rq.op = "news" THEN NewsDone(rq, <<>>)
                      ELSE SearchLoop([rq EXCEPT !.i = rq.i + 1])
                 ELSE Call([rq EXCEPT !.rows = rq.ret, !.j = 1], "pk", symbol, None, "shape")]
    /\ UNCHANGED <<schema, changes, calls, caches>>

\* _augment_row / _search_result: symbol and document id of one row.
Shaped(symbol, row, primary_key) ==
    [symbol |-> symbol, id |-> DocumentId(symbol, row, primary_key), row |-> row]

\* One row is shaped with the primary key _resolve_primary_key returned; the
\* next row follows, or the operation goes on after the last one.
ShapeRow(r) ==
    LET rq == req[r]
        symbol == IF rq.op = "news" THEN rq.norm ELSE rq.targets[rq.i]
        grown == [rq EXCEPT !.results = Append(rq.results, Shaped(symbol, rq.rows[rq.j], rq.ret)),
                            !.j = rq.j + 1]
    IN
    /\ rq.q = NoQ /\ rq.pc = "shape"
    /\ req' = [req EXCEPT ![r] =
                 IF rq.j < Len(rq.rows) THEN Call(grown, "pk", symbol, None, "shape")
                 ELSE IF rq.op = "news" THEN NewsDone(grown, grown.results)
                 ELSE SearchLoop([grown EXCEPT !.i = rq.i + 1])]
    /\ UNCHANGED <<schema, changes, calls, caches>>

\* ------------------------------------------------------------------ search

\* search is called: lines 120-125.  A blank query returns at once; a bad
\* limit raises; otherwise _resolve_target_symbols starts with a refresh.
StartSearch(r, wide) ==
    /\ req[r].op = "idle"
    /\ calls < MaxCalls
    /\ calls' = calls + 1
    /\ \E query \in QueryInputs(wide), symbols \in SymbolListInputs(wide),
          date_from \in DateInputs(wide), limit \in LimitInputs(wide) :
          LET rq == [IdleReq EXCEPT !.op = "search", !.query = query, !.symbols = symbols,
                                    !.date_from = date_from, !.has_limit = TRUE,
                                    !.limit = limit]
          IN req' = [req EXCEPT ![r] =
                       IF IsBlank(query) THEN Done(rq, <<>>)
                       ELSE IF ~SafeLimit(limit).ok THEN Fail(rq, SafeLimit(limit).error)
                       ELSE Call([rq EXCEPT !.row_limit = SafeLimit(limit).value],
                                 "tables", <<>>, None, "search_targets")]
    /\ UNCHANGED <<schema, changes, caches>>

\* _resolve_target_symbols lines 197-199, after its refresh returned.
SearchTargets(r) ==
    LET rq == req[r] IN
    /\ rq.q = NoQ /\ rq.pc = "search_targets"
    /\ req' = [req EXCEPT ![r] =
                 IF rq.symbols = NoneS \/ rq.symbols = <<>>
                 THEN AfterTargets(rq, DefaultTargets(_symbols_cache))
                 ELSE Call([rq EXCEPT !.i = 1, !.symbol = rq.symbols[1]],
                           "tables", <<>>, None, "validate")]
    /\ UNCHANGED <<schema, changes, calls, caches>>

\* A scan that ends at the first symbol without searchable column and
\* returns what it has collected.
SearchColumnsStops(r) ==
    LET rq == req[r]
        search_columns == SearchableColumns(rq.ret)
    IN
    /\ rq.q = NoQ /\ rq.pc = "search_cols"
    /\ req' = [req EXCEPT ![r] =
                 IF search_columns = <<>> THEN Done(rq, Take(rq.results, rq.row_limit))
                 ELSE Call([rq EXCEPT !.scols = search_columns],
                           "columns", rq.targets[rq.i], None, "search_sql")]
    /\ UNCHANGED <<schema, changes, calls, caches>>

\* search lines 134-138: no searchable column, the symbol is skipped; else
\* _resolve_date_column asks _resolve_columns once more.
SearchColumns(r) ==
    LET rq == req[r]
        search_columns == SearchableColumns(rq.ret)
    IN
    /\ rq.q = NoQ /\ rq.pc = "search_cols"
    /\ req' = [req EXCEPT ![r] =
                 IF search_columns = <<>> THEN SearchLoop([rq EXCEPT !.i = rq.i + 1])
                 ELSE Call([rq EXCEPT !.scols = search_columns],
                           "columns", rq.targets[rq.i], None, "search_sql")]
    /\ UNCHANGED <<schema, changes, calls, caches>>

\* A statement that asks every table for the whole limit, whatever has been
\* collected already.
SearchSqlWholeLimit(rq, date_column) ==
    LET table_limit == Min(rq.row_limit, MaxRows)
        pattern == Strip(rq.query)
    IN IF Given(rq.date_from) /\ date_column # None
       THEN RowSql(rq.targets[rq.i], rq.scols, pattern, date_column, rq.date_from,
                   date_column, None, <<>>, table_limit)
       ELSE RowSql(rq.targets[rq.i], rq.scols, pattern, None, NoneS,
                   date_column, None, <<>>, table_limit)

\* search lines 139-154: the statement for one target symbol.
SearchSql(rq, date_column) ==
    LET table_limit == Min(rq.row_limit - Len(rq.results), MaxRows)
        pattern == Strip(rq.query)
    IN IF Given(rq.date_from) /\ date_column # None
       THEN RowSql(rq.targets[rq.i], rq.scols, pattern, date_column, rq.date_from,
                   date_column, None, <<>>, table_limit)
       ELSE RowSql(rq.targets[rq.i], rq.scols, pattern, None, NoneS,
                   date_column, None, <<>>, table_limit)

SearchQuery(r) ==
    LET rq == req[r] IN
    /\ rq.q = NoQ /\ rq.pc = "search_sql"
    /\ req' = [req EXCEPT ![r] =
                 Call(rq, "rows", rq.targets[rq.i], SearchSql(rq, DateColumn(rq.ret)),
                      "rows_back")]
    /\ UNCHANGED <<schema, changes, calls, caches>>

\* ------------------------------------------------------------------- fetch

\* fetch is called: lines 162-166.
StartFetch(r, wide) ==
    /\ req[r].op = "idle"
    /\ calls < MaxCalls
    /\ calls' = calls + 1
    /\ \E id \in IdInputs(wide) :
          LET rq == [IdleReq EXCEPT !.op = "fetch", !.id = id]
              parts == SplitId(id)
          IN req' = [req EXCEPT ![r] =
                       IF ~parts.ok THEN Fail(rq, parts.error)
                       ELSE Call([rq EXCEPT !.symbol = parts.value.symbol,
                                            !.raw_pk = parts.value.raw_pk],
                                 "tables", <<>>, None, "validate")]
    /\ UNCHANGED <<schema, changes, caches>>

\* A fetch that reads the first row of the table, whatever its key.
FetchQueryUnkeyed(r) ==
    LET rq == req[r]
        primary_key == rq.ret
    IN
    /\ rq.q = NoQ /\ rq.pc = "fetch_pk"
    /\ req' = [req EXCEPT ![r] =
                 IF NoKey(primary_key) THEN Fail(rq, "NoPrimaryKey")
                 ELSE Call([rq EXCEPT !.pk = primary_key], "rows", rq.norm,
                           RowSql(rq.norm, <<>>, <<>>, None, NoneS, None,
                                  None, <<>>, 1),
                           "fetch_rows")]
    /\ UNCHANGED <<schema, changes, calls, caches>>

\* fetch lines 168-175.
FetchQuery(r) ==
    LET rq == req[r]
        primary_key == rq.ret
    IN
    /\ rq.q = NoQ /\ rq.pc = "fetch_pk"
    /\ req' = [req EXCEPT ![r] =
                 IF NoKey(primary_key) THEN Fail(rq, "NoPrimaryKey")
                 ELSE Call([rq EXCEPT !.pk = primary_key], "rows", rq.norm,
                           RowSql(rq.norm, <<>>, <<>>, None, NoneS, None,
                                  primary_key, rq.raw_pk, 1),
                           "fetch_rows")]
    /\ UNCHANGED <<schema, changes, calls, caches>>

\* fetch lines 176-183: no row, or _document_id asks _resolve_primary_key.
FetchRows(r) ==
    LET rq == req[r] IN
    /\ rq.q = NoQ /\ rq.pc = "fetch_rows"
    /\ req' = [req EXCEPT ![r] =
                 IF rq.ret = <<>> THEN Fail(rq, "NotFound")
                 ELSE Call([rq EXCEPT !.rows = rq.ret], "pk", rq.norm, None, "fetch_doc")]
    /\ UNCHANGED <<schema, changes, calls, caches>>

\* fetch lines 179-193: the Document.
Document(rq, primary_key) ==
    [ id |-> DocumentId(rq.norm, rq.rows[1], primary_key),
      title |-> IF ExtractTitle(rq.rows[1]) # <<>> THEN ExtractTitle(rq.rows[1])
                ELSE rq.norm \o <<" news item">>,
      symbol |-> rq.norm,
      primary_key_column |-> rq.pk,
      raw_row |-> rq.rows[1] ]

FetchReturn(r) ==
    LET rq == req[r] IN
    /\ rq.q = NoQ /\ rq.pc = "fetch_doc"
    /\ req' = [req EXCEPT ![r] = Done(rq, Document(rq, rq.ret))]
    /\ UNCHANGED <<schema, changes, calls, caches>>

\* ----------------------------------------------------------------- the run

\* The tool call is over: its result or error went to the caller.
Return(r) ==
    /\ req[r].pc = "done"
    /\ req' = [req EXCEPT ![r] = IdleReq]
    /\ UNCHANGED <<schema, changes, calls, caches>>

\* Somebody creates or drops a table, or adds or drops its primary key, while
\* the server runs.
SchemaChange ==
    /\ changes < MaxSchemaChanges
    /\ \E t \in TableNames, shape \in Shapes :
          /\ shape # schema[t]
          /\ schema' = [schema EXCEPT ![t] = shape]
    /\ changes' = changes + 1
    /\ UNCHANGED <<calls, caches, req>>

\* One step of request r.
Step(r, wide) ==
    \/ StartList(r, wide) \/ StartNews(r, wide) \/ StartSearch(r, wide) \/ StartFetch(r, wide)
    \/ CacheHit(r) \/ Acquire(r) \/ Execute(r) \/ ExecuteFails(r)
    \/ Store(r) \/ StoreLookup(r)
    \/ ListReturn(r) \/ Validate(r) \/ Fallback(r)
    \/ NewsQuery(r) \/ RowsBack(r) \/ ShapeRow(r)
    \/ SearchTargets(r) \/ SearchColumns(r) \/ SearchQuery(r)
    \/ FetchQuery(r) \/ FetchRows(r) \/ FetchReturn(r)
    \/ Return(r)

\* Requests run concurrently: any request takes the next step.
Next == (\E r \in Requests : Step(r, FALSE)) \/ SchemaChange

Spec == Init /\ [][Next]_vars

\* Requests run one after the other: every call is served to its end before
\* the next one arrives.  What a single call returns (the contract of each
\* operation) is stated on SeqSpec, over the wide input sets; what interleaved
\* calls add is stated on Spec.
SeqNext == Step(1, TRUE) \/ SchemaChange

SeqSpec == Init /\ [][SeqNext]_vars

\* The pooled connections the requests hold, and the number of statements
\* each request has seen end.
Connections == [r \in Requests |-> <<req[r].conn, Len(req[r].log)>>]

\* Requests served one after the other by a database whose driver is given a
\* read timeout (db.py lines 74-76): a statement that is still in execution
\* eventually ends with an error, so none stays in execution forever.
FairNext == Step(1, FALSE) \/ SchemaChange

FairSpec == Init /\ [][FairNext]_vars /\ WF_Connections(ExecuteFails(1))

\* ================================================================== claims

\* The (input, result) pairs of the _validate_symbol calls that returned
\* during the operation a request is running.
Validated(rq) ==
    IF rq.op = "search" THEN { <<rq.symbols[k], rq.vals[k]>> : k \in 1..Len(rq.vals) }
    ELSE IF rq.norm # <<>> THEN { <<rq.symbol, rq.norm>> }
    ELSE {}

\* _validate_symbol raised for this input.
Refused(rq, symbol) == rq.out.status = "UnknownSymbol" /\ rq.symbol = symbol

\* No other table of the inventory has the same lower-cased name.
CaseUnique(S) == \A T \in _symbols_cache : Lower(T) = Lower(S) => T = S

\* The name carries no leading or trailing whitespace.
Trimmed(S) == Strip(S) = S

\* C1 as stated: for every table inventory and every Symbol S in it,
\* _validate_symbol applied to the lower-cased S returns exactly S.
C1_LowerResolvesAnyInventory ==
    \A r \in Requests : \A S \in _symbols_cache :
        /\ \A p \in Validated(req[r]) : p[1] = Lower(S) => p[2] = S
        /\ ~Refused(req[r], Lower(S))

\* C1 amended: for every Symbol S of the inventory whose name has no
\* surrounding whitespace and shares its lower-cased form with no other table
\* of the inventory, _validate_symbol applied to the lower-cased S returns
\* exactly S.
C1_LowerResolvesUnique ==
    \A r \in Requests : \A S \in _symbols_cache :
        (CaseUnique(S) /\ Trimmed(S)) =>
            /\ \A p \in Validated(req[r]) : p[1] = Lower(S) => p[2] = S
            /\ ~Refused(req[r], Lower(S))

\* A lower-cased input that is no table name itself was resolved to its table.
C1_Witness ==
    \E r \in Requests : \E S \in _symbols_cache :
        /\ CaseUnique(S) /\ Trimmed(S) /\ Lower(S) # S
        /\ <<Lower(S), S>> \in Validated(req[r])

\* The row queries a request has built during its operation: the one in
\* progress and those already executed.
RowQueries(rq) ==
    (IF rq.q.kind = "rows" THEN {rq.q.sql} ELSE {})
    \cup { rq.log[n].sql : n \in {m \in 1..Len(rq.log) : rq.log[m].kind = "rows"} }

\* The tables a request has sent row queries to during its operation.
TablesQueried(rq) ==
    { rq.log[n].table : n \in {m \in 1..Len(rq.log) : rq.log[m].kind = "rows"} }

\* The column names metadata discovery recorded for a table.
CachedColumns(t) ==
    IF t \in DOMAIN _columns_cache THEN Available(_columns_cache[t]) ELSE {}

\* C2: every table identifier interpolated into a row query is an element of
\* the cached table inventory, every column identifier is a column (or the
\* primary key) metadata discovery recorded for that table, and the caller's
\* values (pattern, date, key, limit) travel as bound parameters.
C2_OnlyDiscoveredIdentifiers ==
    \A r \in Requests : \A sql \in RowQueries(req[r]) :
        /\ sql.table \in _symbols_cache
        /\ \A n \in 1..Len(sql.like) : sql.like[n] \in CachedColumns(sql.table)
        /\ sql.date_col # None => sql.date_col \in CachedColumns(sql.table)
        /\ sql.order # None => sql.order \in CachedColumns(sql.table)
        /\ sql.pk_col # None =>
              /\ sql.table \in DOMAIN _primary_key_cache
              /\ sql.pk_col = _primary_key_cache[sql.table]
        /\ sql.like # <<>> => sql.pattern = Strip(req[r].query)
        /\ sql.date_col # None => sql.date_from = req[r].date_from
        /\ sql.pk_col # None => sql.pk = req[r].raw_pk
        /\ sql.limit <= MaxRows

\* A search statement with LIKE columns, a date filter and an ordering ran.
C2_Witness ==
    \E r \in Requests : \E n \in 1..Len(req[r].log) :
        /\ req[r].log[n].kind = "rows" /\ req[r].log[n].ok
        /\ req[r].log[n].sql.like # <<>>
        /\ req[r].log[n].sql.date_col # None
        /\ req[r].log[n].sql.order # None

\* The table inventory: the cached one, or what discovery would find while
\* the cache is still empty.
Inventory == IF _symbols_cache # {} THEN _symbols_cache ELSE RunTablesQuery(schema)

\* The symbol matches no table of the inventory, case-insensitively, after
\* trimming.
UnknownSymbol(symbol) ==
    \A T \in Inventory : Lower(T) # Lower(Strip(symbol))

\* The symbols the caller supplied to the operation of a request.
Supplied(rq) ==
    CASE rq.op = "news" -> {rq.symbol}
      [] rq.op = "fetch" -> IF Count(rq.id, ":") = 0 THEN {} ELSE {rq.symbol}
      [] rq.op = "search" ->
            IF rq.symbols = NoneS THEN {} ELSE {rq.symbols[n] : n \in 1..Len(rq.symbols)}
      [] OTHER -> {}

\* The operation is over and the backing store answered every query.
Finished(rq) == rq.pc = "done" /\ rq.out.status # "QueryFailed"

\* C3 as stated: when a supplied symbol is unknown, readBySymbol, fetchById
\* and search with an explicit list fail with UnknownSymbol, and no row query
\* is executed.
C3_UnknownSymbolAlwaysFails ==
    \A r \in Requests :
        (Finished(req[r]) /\ \E sym \in Supplied(req[r]) : UnknownSymbol(sym)) =>
            /\ req[r].out.status = "UnknownSymbol"
            /\ RowQueries(req[r]) = {}

\* C3 amended: the same, where search is called with a non-blank query and a
\* limit > 0 (a blank query returns the empty list and a limit <= 0 fails
\* with InvalidLimit before any symbol is looked at); in every case no row
\* query is executed.
C3_UnknownSymbolFails ==
    \A r \in Requests :
        (Finished(req[r]) /\ \E sym \in Supplied(req[r]) : UnknownSymbol(sym)) =>
            /\ RowQueries(req[r]) = {}
            /\ (req[r].op = "search" => Strip(req[r].query) # <<>> /\ req[r].limit > 0)
                  => req[r].out.status = "UnknownSymbol"

\* A search failed on an unknown symbol that was not the first of its list.
C3_Witness ==
    \E r \in Requests :
        /\ req[r].op = "search" /\ req[r].out.status = "UnknownSymbol"
        /\ Len(req[r].vals) >= 1
        /\ ~UnknownSymbol(req[r].symbols[1])
        /\ UnknownSymbol(req[r].symbols[Len(req[r].vals) + 1])

\* C4: search returns at most `limit` results, and without an explicit symbol
\* list it sends row queries to at most max_scan_symbols distinct symbols.
C4_SearchBounded ==
    \A r \in Requests :
        req[r].op = "search" =>
            /\ (req[r].out.status = "ok" => Len(req[r].out.value) <= req[r].limit)
            /\ (req[r].symbols = NoneS =>
                    Cardinality(TablesQueried(req[r])) <= MaxScanSymbols)

\* A search without a symbol list queried max_scan_symbols tables of a larger
\* inventory and returned as many results as the clamped limit allows.
C4_Witness ==
    \E r \in Requests :
        /\ req[r].op = "search" /\ req[r].symbols = NoneS /\ req[r].out.status = "ok"
        /\ Cardinality(_symbols_cache) > MaxScanSymbols
        /\ Cardinality(TablesQueried(req[r])) = MaxScanSymbols
        /\ Len(req[r].out.value) = Min(req[r].limit, MaxRows)
        /\ Len(req[r].out.value) > 0

\* C5: readBySymbol returns at most min(limit, maxRows) rows.
C5_NewsBounded ==
    \A r \in Requests :
        (req[r].op = "news" /\ req[r].out.status = "ok") =>
            Len(req[r].out.value) <= Min(req[r].limit, MaxRows)

\* A read asked for more than max_rows of a table that holds more and got
\* exactly max_rows.
C5_Witness ==
    \E r \in Requests :
        /\ req[r].op = "news" /\ req[r].out.status = "ok"
        /\ req[r].limit > MaxRows
        /\ Len(RowsOf(req[r].norm)) > MaxRows
        /\ Len(req[r].out.value) = MaxRows

\* C6 as stated: fetchById fails with MalformedId for every id that does not
\* hold exactly one ':' (none, or two and more).
C6_ExactlyOneSeparator ==
    \A r \in Requests :
        (req[r].op = "fetch" /\ req[r].pc = "done" /\ Count(req[r].id, ":") # 1) =>
            req[r].out.status = "MalformedId"

\* C6 amended: fetchById fails with MalformedId exactly for the ids that hold
\* no ':'; every other id is split at its first ':' into the symbol before it
\* and the raw key after it (which may hold further ':').
C6_SplitAtFirstSeparator ==
    \A r \in Requests :
        req[r].op = "fetch" =>
            /\ req[r].out.status = "MalformedId" <=> Count(req[r].id, ":") = 0
            /\ Count(req[r].id, ":") > 0 =>
                  /\ req[r].symbol \o <<":">> \o req[r].raw_pk = req[r].id
                  /\ Count(req[r].symbol, ":") = 0

\* An id with two separators was fetched: its key is all that follows the
\* first one.
C6_Witness ==
    \E r \in Requests :
        /\ req[r].op = "fetch" /\ req[r].out.status = "ok"
        /\ Count(req[r].id, ":") = 2
        /\ Count(req[r].raw_pk, ":") = 1
        /\ req[r].out.value.id = req[r].id

\* The id "S:k" of a row of table S.
IdOf(S, row) == S \o <<":">> \o Str(row.id)

\* Table S has a primary key, and the server has recorded nothing else.
Keyed(S) ==
    /\ S \in _symbols_cache
    /\ ShapeOf(schema, S) = "keyed"
    /\ S \in DOMAIN _primary_key_cache => _primary_key_cache[S] = KeyColumn

Keyless(S) ==
    /\ S \in _symbols_cache
    /\ \/ S \in DOMAIN _primary_key_cache /\ _primary_key_cache[S] = None
       \/ S \notin DOMAIN _primary_key_cache /\ ShapeOf(schema, S) = "keyless"

\* C8: fetchById on a known Symbol whose table has no primary key fails with
\* NoPrimaryKey, whatever the key value, and sends no row query to the table.
C8_KeylessFetchFails ==
    \A r \in Requests :
        (req[r].op = "fetch" /\ req[r].norm # <<>> /\ Keyless(req[r].norm)) =>
            /\ RowQueries(req[r]) = {}
            /\ Finished(req[r]) => req[r].out.status = "NoPrimaryKey"

\* A fetch on a keyless table ended with NoPrimaryKey.
C8_Witness ==
    \E r \in Requests :
        /\ req[r].op = "fetch" /\ req[r].out.status = "NoPrimaryKey"
        /\ ShapeOf(schema, req[r].norm) = "keyless"
        /\ Count(req[r].raw_pk, ":") = 1

\* C9: a search with an empty or whitespace-only query returns the empty
\* list without error, for any other arguments, runs no query and leaves
\* every cache as it was, also when the cache is cold.
C9_BlankQueryTouchesNothing ==
    [][ \A r \in Requests :
          (req[r].op = "idle" /\ req'[r].op = "search" /\ Strip(req'[r].query) = <<>>) =>
              /\ req'[r].pc = "done"
              /\ req'[r].out = [status |-> "ok", value |-> <<>>]
              /\ req'[r].log = <<>>
              /\ req'[r].conn = 0
              /\ UNCHANGED caches ]_vars

\* A whitespace-only query with an unknown symbol and a limit of 0 returned
\* the empty list on a cold cache.
C9_Witness ==
    \E r \in Requests :
        /\ req[r].op = "search" /\ req[r].query = <<" ">>
        /\ req[r].symbols # NoneS /\ req[r].limit = 0
        /\ req[r].out = [status |-> "ok", value |-> <<>>]
        /\ req[r].log = <<>>
        /\ _symbols_cache = {} /\ DOMAIN _columns_cache = {}

\* The (symbol, row, id) triples _document_id has produced in the operations
\* the requests are running or have just finished.
Identified(rq) ==
    { <<rq.results[n].symbol, rq.results[n].row, rq.results[n].id>> : n \in 1..Len(rq.results) }
    \cup (IF rq.op = "fetch" /\ rq.out.status = "ok"
          THEN { <<rq.norm, rq.out.value.raw_row, rq.out.value.id>> } ELSE {})

\* C10: _document_id is deterministic within a process: two calls with the
\* same Symbol and Row return the same id, whatever other requests and schema
\* changes come between or run concurrently.
C10_IdentifyDeterministic ==
    \A r1, r2 \in Requests :
        \A a \in Identified(req[r1]) : \A b \in Identified(req[r2]) :
            (a[1] = b[1] /\ a[2] = b[2]) => a[3] = b[3]

\* The metadata lookups: tableInventory, columnsOf, primaryKeyOf.
Lookups == {"tables", "columns", "pk"}

\* The cache holds no answer for the lookup (an empty inventory counts as
\* none: _refresh_symbols_cache tests the set's truth value).
Missing(kind, table) ==
    CASE kind = "tables"  -> _symbols_cache = {}
      [] kind = "columns" -> table \notin DOMAIN _columns_cache
      [] kind = "pk"      -> table \notin DOMAIN _primary_key_cache
      [] OTHER            -> TRUE

\* C11: when the metadata query of a lookup fails, the failure ends the
\* operation and reaches the caller, every cache is left exactly as it was
\* with no entry for that lookup, and a lookup that finds no entry always
\* issues its discovery query (it is never answered without one).
C11_FailedLookupLeavesNoEntry ==
    [][ \A r \in Requests :
          /\ (/\ req[r].q.ph = "exec" /\ req[r].q.kind \in Lookups
              /\ req'[r].q.ph # "store" /\ req'[r] # req[r]) =>
                 /\ req'[r].pc = "done" /\ req'[r].out = [status |-> "QueryFailed"]
                 /\ UNCHANGED caches
                 /\ Missing(req[r].q.kind, req[r].q.table)'
          /\ (/\ req[r].q.ph = "check" /\ req[r].q.kind \in Lookups
              /\ Missing(req[r].q.kind, req[r].q.table)
              /\ req'[r] # req[r]) =>
                 /\ req'[r].q = [req[r].q EXCEPT !.ph = "exec"]
                 /\ req'[r].conn = req[r].conn + 1
                 /\ UNCHANGED caches ]_vars

\* A primary-key lookup failed after the inventory and the columns had been
\* discovered: the operation ended with the failure and no key entry exists.
C11_Witness ==
    \E r \in Requests :
        /\ req[r].out.status = "QueryFailed"
        /\ Len(req[r].log) >= 3
        /\ req[r].log[Len(req[r].log)].kind = "pk"
        /\ ~req[r].log[Len(req[r].log)].ok
        /\ req[r].log[Len(req[r].log)].table \notin DOMAIN _primary_key_cache
        /\ _symbols_cache # {} /\ DOMAIN _columns_cache # {}

\* The symbol matches a table of the cached inventory, case-insensitively,
\* after trimming.
KnownSymbol(symbol) ==
    \E T \in _symbols_cache : Lower(T) = Lower(Strip(symbol))

\* For a limit > 0 no operation fails with InvalidLimit and the effective
\* limit is min(limit, max_rows): it bounds every row query, and list returns
\* that many symbols of the inventory.
ClampedLimit(rq) ==
    /\ rq.out.status # "InvalidLimit"
    /\ rq.row_limit \in {0, Min(rq.limit, MaxRows)}
    /\ \A sql \in RowQueries(rq) : sql.limit <= Min(rq.limit, MaxRows)
    /\ (rq.op = "list" /\ rq.out.status = "ok") =>
          Len(rq.out.value) = Min(Min(rq.limit, MaxRows), Cardinality(_symbols_cache))

\* C12 as stated: every operation that takes a row limit fails with
\* InvalidLimit whenever the limit is <= 0, for all other argument values;
\* for a limit > 0 the effective limit is min(limit, max_rows) and no error
\* is raised.
C12_InvalidLimitAlways ==
    \A r \in Requests :
        (Finished(req[r]) /\ req[r].has_limit) =>
            IF req[r].limit <= 0 THEN req[r].out.status = "InvalidLimit"
            ELSE ClampedLimit(req[r])

\* C12 amended: with a limit <= 0, list fails with InvalidLimit, readBySymbol
\* fails with InvalidLimit when its symbol is known and with UnknownSymbol
\* when it is not, and search fails with InvalidLimit when its query is not
\* blank and returns the empty list when it is; no row query is executed.
\* For a limit > 0 the effective limit is min(limit, max_rows) and no error is
\* raised.
C12_InvalidLimit ==
    \A r \in Requests :
        (Finished(req[r]) /\ req[r].has_limit) =>
            IF req[r].limit > 0 THEN ClampedLimit(req[r])
            ELSE /\ RowQueries(req[r]) = {}
                 /\ req[r].op = "list" => req[r].out.status = "InvalidLimit"
                 /\ req[r].op = "news" =>
                       req[r].out.status =
                           IF KnownSymbol(req[r].symbol) THEN "InvalidLimit" ELSE "UnknownSymbol"
                 /\ req[r].op = "search" =>
                       req[r].out =
                           IF IsBlank(req[r].query) THEN [status |-> "ok", value |-> <<>>]
                           ELSE [status |-> "InvalidLimit"]

\* A read of a known symbol, spelled in another case and with a date that is
\* no date, failed on its limit of 0 before any column was looked up.
C12_Witness ==
    \E r \in Requests :
        /\ req[r].op = "news" /\ req[r].out.status = "InvalidLimit"
        /\ req[r].limit = 0
        /\ KnownSymbol(req[r].symbol) /\ req[r].symbol \notin _symbols_cache
        /\ req[r].date_from = <<"z">>
        /\ \A n \in 1..Len(req[r].log) : req[r].log[n].kind = "tables"

\* The operation gets as far as its date: the symbols it was given are known,
\* its limit is > 0 and, for search, its query is not blank.
ReachesDate(rq) ==
    /\ rq.limit > 0
    /\ \A sym \in Supplied(rq) : KnownSymbol(sym)
    /\ rq.op = "search" => ~IsBlank(rq.query)

\* C13: readBySymbol and search fail with InvalidDateFormat whenever the
\* dateFrom supplied is no valid date, whether or not the table of a target
\* symbol has a date column, and no row query is executed.  (Stated for the
\* calls whose other arguments are accepted.)
C13_InvalidDateAlwaysFails ==
    \A r \in Requests :
        (/\ Finished(req[r]) /\ req[r].op \in {"news", "search"}
         /\ Given(req[r].date_from) /\ ~ValidDate(req[r].date_from)
         /\ ReachesDate(req[r])) =>
            /\ req[r].out.status = "InvalidDateFormat"
            /\ RowQueries(req[r]) = {}

\* The search has resolved its target symbols and is scanning them, or has
\* returned after the scan.
TargetsResolved(rq) ==
    /\ rq.op = "search" /\ ~IsBlank(rq.query)
    /\ \/ rq.pc \in {"search_cols", "search_sql", "rows_back", "shape"}
       \/ rq.pc = "done" /\ rq.out.status = "ok"

\* C14: the target sequence of search is, for an explicit symbol list, the
\* canonical forms of all listed symbols in first-occurrence order with
\* duplicates removed (every distinct listed symbol is a target), and without
\* a list the lexicographically first max_scan_symbols symbols of the
\* inventory.
C14_TargetSequence ==
    \A r \in Requests :
        TargetsResolved(req[r]) =>
            IF req[r].symbols = NoneS
            THEN req[r].targets = Take(Sorted(_symbols_cache), MaxScanSymbols)
            ELSE /\ Len(req[r].vals) = Len(req[r].symbols)
                 /\ \A k \in 1..Len(req[r].vals) :
                       /\ req[r].vals[k] \in _symbols_cache
                       /\ Lower(req[r].vals[k]) = Lower(Strip(req[r].symbols[k]))
                 /\ req[r].targets = Dedup(req[r].vals)

\* C15: list returns the canonical symbols of the inventory in lexicographic
\* order: with a limit > 0 exactly the first min(limit, max_rows) symbols of
\* the sorted inventory; with no limit the sorted inventory, and the number
\* of symbols returned is still bounded by max_rows.
C15_ListSortedAndBounded ==
    \A r \in Requests :
        (req[r].op = "list" /\ req[r].out.status = "ok") =>
            IF req[r].has_limit
            THEN req[r].out.value = Take(Sorted(_symbols_cache), Min(req[r].limit, MaxRows))
            ELSE /\ req[r].out.value = Sorted(_symbols_cache)
                 /\ Len(req[r].out.value) <= MaxRows

\* C16: the symbol field of every get_symbol_news response is the canonical
\* symbol the input resolved to, for every accepted input and every number of
\* returned rows, zero included.
C16_ResponseSymbolCanonical ==
    \A r \in Requests :
        (req[r].op = "news" /\ req[r].out.status = "ok") =>
            /\ req[r].out.symbol = req[r].norm
            /\ req[r].out.symbol \in _symbols_cache

\* The entries of the statements of one kind in a request's log.
Logged(rq, kind) == SelectSeq(rq.log, LAMBDA e : e.kind = kind)

\* C17: for a well-formed id whose symbol is known and has a primary key,
\* fetchById executes exactly one row query, an exact match on the primary-key
\* column with the raw key as bound parameter, and fails with NotFound if and
\* only if no row has that key; the checks come in the order MalformedId (no
\* query at all), UnknownSymbol (no key lookup), NoPrimaryKey (no row query),
\* NotFound.
C17_FetchChecksInOrder ==
    \A r \in Requests :
        (req[r].op = "fetch" /\ Finished(req[r])) =>
            IF Count(req[r].id, ":") = 0
            THEN req[r].out.status = "MalformedId" /\ req[r].log = <<>>
            ELSE IF ~KnownSymbol(req[r].symbol)
            THEN /\ req[r].out.status = "UnknownSymbol"
                 /\ Logged(req[r], "pk") = <<>> /\ Logged(req[r], "rows") = <<>>
            ELSE IF _primary_key_cache[req[r].norm] = None
            THEN req[r].out.status = "NoPrimaryKey" /\ Logged(req[r], "rows") = <<>>
            ELSE /\ Len(Logged(req[r], "rows")) = 1
                 /\ Logged(req[r], "rows")[1].sql =
                       RowSql(req[r].norm, <<>>, <<>>, None, NoneS, None,
                              _primary_key_cache[req[r].norm], req[r].raw_pk, 1)
                 /\ req[r].out.status \in {"NotFound", "ok"}
                 /\ req[r].out.status = "NotFound" <=>
                       \A n \in 1..Len(RowsOf(req[r].norm)) :
                           ~KeyEq(RowsOf(req[r].norm)[n], req[r].pk, req[r].raw_pk)

\* A well-formed id of a keyed table that no row has: one row query ran on
\* the key column and the fetch ended with NotFound.
C17_Witness ==
    \E r \in Requests :
        /\ req[r].op = "fetch" /\ req[r].out.status = "NotFound"
        /\ req[r].pk = KeyColumn
        /\ Len(Logged(req[r], "rows")) = 1
        /\ Logged(req[r], "rows")[1].ok
        /\ Logged(req[r], "rows")[1].sql.pk = req[r].raw_pk

\* The lookup map holds the lower-cased form of every name of the inventory.
LookupComplete ==
    \A T \in _symbols_cache : Lower(T) \in DOMAIN _symbol_lookup_cache

\* C18: with concurrent requests no partially populated inventory is
\* observable: a request that has found the inventory non-empty and turns to
\* the lookup map finds the lower-cased form of every inventory name in it,
\* and no request gets UnknownSymbol for a case variant of a known symbol.
C18_NoPartialInventory ==
    \A r \in Requests :
        /\ req[r].pc = "fallback" => LookupComplete
        /\ req[r].out.status = "UnknownSymbol" => ~KnownSymbol(req[r].symbol)

\* The lookup (kind, table) ran its metadata query with success at the m-th
\* and again at the n-th statement of the operation.
Rediscovered(rq, m, n) ==
    /\ m < n
    /\ rq.log[m].kind \in Lookups /\ rq.log[m].ok
    /\ rq.log[n].kind = rq.log[m].kind /\ rq.log[n].table = rq.log[m].table

\* C19: in a sequential run each of the three lookups is memoized: after one
\* successful discovery no later call of the same lookup issues its metadata
\* query again, for every backing schema, a schema with zero base tables and
\* tables without primary key included.  (Stated for the calls of a lookup
\* that one operation makes.)
C19_LookupsMemoized ==
    \A r \in Requests : \A m, n \in 1..Len(req[r].log) : ~Rediscovered(req[r], m, n)

\* Every entry of the cache is in the cache after the step, with its value.
Kept(cache, after) ==
    \A t \in DOMAIN cache : t \in DOMAIN after /\ after[t] = cache[t]

\* C20: cache entries are immutable once written: in every step, whatever
\* requests interleave and however the backing schema changes, an entry of
\* the columns cache or of the primary-key cache keeps its value and is never
\* removed, and a non-empty cached inventory never changes.
C20_CacheEntriesImmutable ==
    [][ /\ Kept(_columns_cache, _columns_cache')
        /\ Kept(_primary_key_cache, _primary_key_cache')
        /\ _symbols_cache # {} => _symbols_cache' = _symbols_cache ]_vars

\* The successful statements of a lookup kind in the operation of a request.
Discovered(rq, kind) == SelectSeq(rq.log, LAMBDA e : e.kind = kind /\ e.ok)

\* The table whose metadata the request has just been handed.
LookupTable(rq) == IF rq.op = "search" THEN rq.targets[rq.i] ELSE rq.norm

\* The request holds the answer of columnsOf (resp. primaryKeyOf) it has just
\* been given, from the cache or from its own query.
HoldsColumns(rq) == rq.q = NoQ /\ rq.pc \in {"news_sql", "search_cols", "search_sql"}

HoldsKey(rq) == rq.q = NoQ /\ rq.pc \in {"fetch_pk", "fetch_doc", "shape"}

\* C21: against an unchanged backing schema, when requests miss the columns
\* or primary-key cache for the same symbol at the same time, under every
\* interleaving each request is handed the metadata the backing store holds,
\* the cache holds exactly that metadata once a request has discovered it,
\* a request in a lookup can always take its next step whatever the other
\* request does, and a request fails only when a query of its own failed.
C21_RacingDiscoveryAgrees ==
    changes = 0 =>
        \A r \in Requests :
            /\ HoldsColumns(req[r]) =>
                  req[r].ret = RunColumnsQuery(schema, LookupTable(req[r]))
            /\ HoldsKey(req[r]) =>
                  req[r].ret = KeyOf(RunKeyQuery(schema, LookupTable(req[r])))
            /\ \A n \in 1..Len(Discovered(req[r], "columns")) :
                  LET t == Discovered(req[r], "columns")[n].table IN
                  (HoldsColumns(req[r]) \/ req[r].pc = "done") =>
                      /\ t \in DOMAIN _columns_cache
                      /\ _columns_cache[t] = RunColumnsQuery(schema, t)
            /\ \A n \in 1..Len(Discovered(req[r], "pk")) :
                  LET t == Discovered(req[r], "pk")[n].table IN
                  (HoldsKey(req[r]) \/ req[r].pc = "done") =>
                      /\ t \in DOMAIN _primary_key_cache
                      /\ _primary_key_cache[t] = KeyOf(RunKeyQuery(schema, t))
            /\ (req[r].q.kind \in {"columns", "pk"}) =>
                  ENABLED (CacheHit(r) \/ Acquire(r) \/ Execute(r) \/ Store(r))
            /\ req[r].out.status = "QueryFailed" =>
                  ~req[r].log[Len(req[r].log)].ok

\* Both requests missed the primary-key cache for the same keyless table, both
\* ran the discovery query, and both finished their reads with the same ids
\* while the cache holds what the store holds.
C21_Witness ==
    /\ changes = 0
    /\ \A r \in Requests :
          /\ req[r].op = "news" /\ req[r].out.status = "ok"
          /\ Len(Discovered(req[r], "pk")) = 1
          /\ Len(Discovered(req[r], "columns")) = 1
    /\ req[1].norm = req[2].norm
    /\ req[1].out.value = req[2].out.value /\ req[1].out.value # <<>>
    /\ _primary_key_cache[req[1].norm] = KeyOf(RunKeyQuery(schema, req[1].norm))

\* The position of a symbol in the target sequence of a search.
TargetIndex(rq, t) == CHOOSE k \in 1..Len(rq.targets) : rq.targets[k] = t

\* The results a search had collected before the n-th row query of its log:
\* those of the tables queried earlier.
CollectedBefore(rq, n) ==
    Cardinality({ k \in 1..Len(rq.results) :
                    \E m \in 1..(n - 1) :
                        Logged(rq, "rows")[m].table = rq.results[k].symbol })

\* C22: search goes through its targets strictly in order under one budget:
\* a row query is issued for a symbol only while fewer results than the
\* effective limit have been collected, its LIMIT is min(effective limit -
\* results collected so far, max_rows) and at least 1, the tables queried and
\* the results follow the order of the targets, and nothing is queried once
\* the budget is reached.
C22_SearchSharedBudget ==
    \A r \in Requests :
        req[r].op = "search" =>
            LET rq == req[r]
                rows == Logged(rq, "rows")
            IN
            /\ \A n \in 1..Len(rows) :
                  /\ rows[n].table \in {rq.targets[k] : k \in 1..Len(rq.targets)}
                  /\ CollectedBefore(rq, n) < rq.row_limit
                  /\ rows[n].sql.limit = Min(rq.row_limit - CollectedBefore(rq, n), MaxRows)
                  /\ rows[n].sql.limit >= 1
                  /\ \A m \in 1..(n - 1) :
                        TargetIndex(rq, rows[m].table) < TargetIndex(rq, rows[n].table)
            /\ rq.q.kind = "rows" =>
                  /\ Len(rq.results) < rq.row_limit
                  /\ rq.q.sql.limit = Min(rq.row_limit - Len(rq.results), MaxRows)
                  /\ rq.q.sql.limit >= 1
            /\ \A j, k \in 1..Len(rq.results) :
                  j < k => TargetIndex(rq, rq.results[j].symbol)
                              <= TargetIndex(rq, rq.results[k].symbol)
            /\ \A p \in 1..Len(rq.log) :
                  rq.log[p].kind = "columns" =>
                      Cardinality({ k \in 1..Len(rq.results) :
                                      \E m \in 1..(p - 1) :
                                          /\ rq.log[m].kind = "rows"
                                          /\ rq.log[m].table = rq.results[k].symbol })
                          < rq.row_limit
            /\ Len(rq.results) <= rq.row_limit
            /\ rq.out.status = "ok" => rq.out.value = rq.results

\* A search collected one result from its first target and asked the second
\* target for the one result its budget still allowed.
C22_Witness ==
    \E r \in Requests :
        /\ req[r].op = "search" /\ req[r].out.status = "ok"
        /\ req[r].row_limit = 2
        /\ Len(Logged(req[r], "rows")) = 2
        /\ Logged(req[r], "rows")[1].sql.limit = 2
        /\ Logged(req[r], "rows")[2].sql.limit = 1
        /\ Len(req[r].out.value) = 2
        /\ req[r].out.value[1].symbol = req[r].targets[1]
        /\ req[r].out.value[2].symbol = req[r].targets[2]

\* The statement of a log entry: what was asked, whatever the outcome.
Statement(e) == <<e.kind, e.table, e.sql>>

\* A failed statement is the last statement of its operation, and the
\* operation then has failed with QueryFailed and carries no value.
FailsAtOnce(rq) ==
    \A n \in 1..Len(rq.log) :
        ~rq.log[n].ok =>
            /\ n = Len(rq.log)
            /\ rq.pc = "done"
            /\ rq.q = NoQ
            /\ rq.out = [status |-> "QueryFailed"]

\* No statement occurs twice in the log of the operation.
ExecutedOnce(rq) ==
    \A m, n \in 1..Len(rq.log) :
        m < n => Statement(rq.log[m]) # Statement(rq.log[n])

\* C23: within one operation no query is retried and no error is swallowed:
\* a failed metadata or row query is the last query of the operation, which
\* fails with that error at once and returns no value, partial results
\* included, and no query of an operation is executed more than once.
C23_NoRetryNoSwallow ==
    \A r \in Requests :
        /\ FailsAtOnce(req[r])
        /\ req[r].out.status = "QueryFailed" =>
              Len(req[r].log) > 0 /\ ~req[r].log[Len(req[r].log)].ok
        /\ ExecutedOnce(req[r])

\* C24: every execution of _query acquires exactly one pooled connection and
\* gives it back before it returns, with rows or with an error: a request
\* holds one connection exactly while a statement of it is in execution, never
\* more than one, none once its operation has completed; a connection is
\* acquired only when a statement starts, every statement that ends releases
\* the one its request held, and every acquired connection is eventually
\* released.
C24_ConnectionsReleased ==
    /\ [](\A r \in Requests :
            /\ req[r].conn \in {0, 1}
            /\ req[r].conn = 1 <=> req[r].q.ph = "exec"
            /\ req[r].pc \in {"idle", "done"} => req[r].conn = 0)
    /\ [][\A r \in Requests :
            /\ req'[r].conn > req[r].conn =>
                  /\ req[r].conn = 0 /\ req'[r].conn = 1
                  /\ req[r].q.ph = "check" /\ req'[r].q.ph = "exec"
                  /\ req'[r].log = req[r].log
            /\ Len(req'[r].log) > Len(req[r].log) =>
                  /\ Len(req'[r].log) = Len(req[r].log) + 1
                  /\ req[r].conn = 1 /\ req'[r].conn = 0
            /\ req'[r].conn < req[r].conn =>
                  Len(req'[r].log) = Len(req[r].log) + 1]_Connections
    /\ \A r \in Requests : (req[r].conn = 1) ~> (req[r].conn = 0)

\* A search that had given back the connections of its earlier statements
\* has given back the one of a statement that failed, and holds none.
C24_Witness ==
    \E r \in Requests :
        /\ req[r].op = "search"
        /\ req[r].out.status = "QueryFailed" /\ req[r].conn = 0
        /\ Len(req[r].log) > 2

\* row.get('date', ''): the field literally named date, as text, or nothing.
DateField(row) == IF "date" \in DOMAIN row THEN Str(row["date"]) ELSE <<>>

\* The primary key the server has recorded for the symbol names a field of
\* the row that is not null.
HasKeyValue(S, row) ==
    /\ _primary_key_cache[S] # None
    /\ _primary_key_cache[S] \in DOMAIN row
    /\ row[_primary_key_cache[S]] # Null

\* The id by primary key: the symbol and the text of the row's value of the
\* recorded primary key, when there is one.
KeyId(S, row) == S \o <<":">> \o Str(Get(row, _primary_key_cache[S]))

\* The fallback id: the symbol and the digest of symbol, title and date field.
FallbackId(S, title, date) ==
    S \o <<":">> \o Digest(S \o <<"|">> \o title \o <<"|">> \o date)

\* C25: _document_id returns "{symbol}:{primary key value}" exactly when the
\* symbol has a primary key and the row's value for it is not null; in every
\* other case it returns "{symbol}:" and a digest that depends on the symbol,
\* the extracted title and the row's field literally named date (nothing
\* when the row has none) alone: neither the resolved date column nor any
\* other field of the row changes the fallback id.
C25_IdentifyBranches ==
    \A r \in Requests : \A a \in Identified(req[r]) :
        LET S == a[1]
            row == a[2]
            id == a[3]
        IN
        /\ S \in DOMAIN _primary_key_cache
        /\ HasKeyValue(S, row) <=> id = KeyId(S, row)
        /\ ~HasKeyValue(S, row) <=> id = FallbackId(S, ExtractTitle(row), DateField(row))
        /\ \A b \in Identified(req[r]) :
              (/\ ~HasKeyValue(S, row) /\ ~HasKeyValue(b[1], b[2])
               /\ b[1] = S
               /\ ExtractTitle(b[2]) = ExtractTitle(row)
               /\ DateField(b[2]) = DateField(row)) => b[3] = id

\* A row with a title and a date, of a table without primary key whose date
\* column is not named date, was identified: the digest was taken with an
\* empty date.
C25_Witness ==
    \E r \in Requests : \E a \in Identified(req[r]) :
        /\ ~HasKeyValue(a[1], a[2])
        /\ DateColumn(ColumnsOf(a[1])) \notin {None, "date"}
        /\ Get(a[2], DateColumn(ColumnsOf(a[1]))) # Null
        /\ a[3] = FallbackId(a[1], ExtractTitle(a[2]), <<>>)
        /\ ExtractTitle(a[2]) # <<>>

\* The row statements of the operation of a request: those that ended and
\* the one in progress.
RowStatements(rq) ==
    { rq.log[n].sql : n \in { m \in 1..Len(rq.log) : rq.log[m].kind = "rows" } }
    \cup (IF rq.q.kind = "rows" THEN {rq.q.sql} ELSE {})

\* C26: get_symbol_news on a known symbol: when the symbol has a date column
\* (the first name of the priority list among its columns) the row query is
\* ordered descending by it and carries the filter on that column, with the
\* caller's date_from, exactly when a date_from is given; when the symbol has
\* no date column the query has neither ordering nor date filter.
C26_NewsOrderAndFilter ==
    \A r \in Requests :
        req[r].op = "news" =>
            \A sql \in RowStatements(req[r]) :
                LET date_column == DateColumn(_columns_cache[req[r].norm]) IN
                /\ sql.table = req[r].norm
                /\ sql.order = date_column
                /\ IF date_column # None /\ req[r].date_from # NoneS
                   THEN sql.date_col = date_column /\ sql.date_from = req[r].date_from
                   ELSE sql.date_col = None /\ sql.date_from = NoneS

\* The table has a searchable column.
Searchable(t) == SearchableColumns(RunColumnsQuery(schema, t)) # <<>>

\* What the loop of search collects from targets that all have searchable
\* columns, against the schema as it is: every target is queried in turn with
\* what is left of the budget, until the budget is used.
RECURSIVE Scan(_, _, _)
Scan(rq, i, results) ==
    IF i > Len(rq.targets) \/ Len(results) >= rq.row_limit
    THEN Take(results, rq.row_limit)
    ELSE LET symbol == rq.targets[i]
             columns == RunColumnsQuery(schema, symbol)
             sql == SearchSql([rq EXCEPT !.i = i, !.results = results,
                                         !.scols = SearchableColumns(columns)],
                              DateColumn(columns))
             rows == RunRowQuery(schema, sql)
             primary_key == KeyOf(RunKeyQuery(schema, symbol))
         IN Scan(rq, i + 1,
                 results \o [n \in 1..Len(rows) |-> Shaped(symbol, rows[n], primary_key)])

\* The results of the same search with the given targets.
SearchOver(rq, targets) == Scan([rq EXCEPT !.targets = targets], 1, <<>>)

\* C27: a target symbol without searchable column is skipped by search
\* without error and without a row query against it, and uses none of the
\* budget: while the schema does not change, the search returns the results
\* of the same search with those symbols removed from its targets, and once
\* the targets are resolved it ends in error only when a query failed.
C27_UnsearchableSkipped ==
    \A r \in Requests :
        (req[r].op = "search" /\ changes = 0) =>
            /\ \A sql \in RowStatements(req[r]) : Searchable(sql.table)
            /\ \A n \in 1..Len(req[r].results) : Searchable(req[r].results[n].symbol)
            /\ req[r].out.status = "ok" =>
                  req[r].out.value = SearchOver(req[r], SelectSeq(req[r].targets, Searchable))
            /\ (req[r].pc = "done" /\ req[r].targets # <<>>) =>
                  req[r].out.status \in {"ok", "QueryFailed"}

\* A search whose first target has no searchable column returned the result
\* found in its second target, and sent no row query to the first.
C27_Witness ==
    \E r \in Requests :
        /\ req[r].op = "search" /\ changes = 0
        /\ req[r].out.status = "ok"
        /\ Len(req[r].targets) = 2
        /\ ~Searchable(req[r].targets[1])
        /\ Len(req[r].out.value) = 1
        /\ req[r].out.value[1].symbol = req[r].targets[2]
        /\ \A sql \in RowStatements(req[r]) : sql.table = req[r].targets[2]

====
